---- MODULE Spec2Model ----
(***************************************************************************)
(* The schema migration engine of internal/app/migrations: the catalog     *)
(* (GetMigrations), the ledger table schema_migrations with its dual       *)
(* schema read/write path, and the Runner (MigrateUp, MigrateDown,         *)
(* Status).                                                                *)
(*                                                                         *)
(* The database is the engine's collaborator: a connection on which a      *)
(* statement either runs or returns an error, and a transaction whose      *)
(* Rollback undoes every statement run on it and whose Commit publishes    *)
(* them together.  A statement fails when SQL says it must (missing table  *)
(* or column, duplicate primary key, foreign key) or when the connection   *)
(* fails, which the model lets happen at any statement.                    *)
(*                                                                         *)
(* Spec and SpecAny run one process (fresh database / any database an      *)
(* operator may hand over); SpecUp003 applies the Up of 003 on its own;    *)
(* SpecTwo runs two processes against one database.                        *)
(***************************************************************************)
EXTENDS Integers, Sequences, FiniteSets, TLC

VARIABLES
    db,       \* the committed database: business tables and ledger tables
    work,     \* the database as seen inside the open transaction (= db when none)
    txOpen,   \* a *sql.Tx is open
    op,       \* the running/last Runner call: "up", "down", "status" ("none" at start)
    pc,       \* position of the running Runner call ("idle": none running)
    idx,      \* loop index into GetMigrations (1-based) / lastMigration
    ret,      \* what the last call returned (its error, or nil)
    out,      \* the lines the running/last call wrote with log.Printf
    calls,    \* history: the database calls the running/last call made
    pre,      \* history: db when the running/last call started
    atBegin,  \* history: db when the open/last transaction was begun
    faulted,  \* history: a connection failure hit the running/last call
    lastTx,   \* history: per migration, the kind of its last committed transaction
    h1,       \* history: summary of the call before the running/last one
    h2,       \* history: summary of the call before h1
    other     \* a second `migrate` process on the same database: its op .. h2

vars == <<db, work, txOpen, op, pc, idx, ret, out, calls, pre, atBegin, faulted, lastTx, h1, h2,
          other>>

Null == "-"

----------------------------------------------------------------------------
(* Tables *)

NoTable == [exists |-> FALSE, cols |-> {}, pk |-> Null, rows |-> {}]

CanonicalCols == {"version", "name", "applied_at"}

\* CREATE TABLE schema_migrations (version PRIMARY KEY, name NOT NULL, applied_at)
CanonicalTable == [exists |-> TRUE, cols |-> CanonicalCols, pk |-> "version", rows |-> {}]

LedgerRow(version, id, name, at) ==
    [version |-> version, id |-> id, name |-> name, applied_at |-> at]

\* NOW(): the runner's own timestamps are not told apart
Now == "now"

\* INSERT on a table without a primary key constraint
InsertFailsNoKey(t, r, c) == ~t.exists \/ ~(c \subseteq t.cols)

\* INSERT INTO t (c...) VALUES (r...): the columns must exist, the primary key
\* must be given and new.
InsertFails(t, r, c) ==
    \/ ~t.exists
    \/ ~(c \subseteq t.cols)
    \/ /\ t.pk # Null
       /\ \/ t.pk \notin c
          \/ \E x \in t.rows : x[t.pk] = r[t.pk]

Insert(t, r) == [t EXCEPT !.rows = @ \cup {r}]

\* ... WHERE col = v: the table and the column must exist
WhereFails(t, col) == ~t.exists \/ col \notin t.cols

Matching(t, col, v) == {x \in t.rows : x[col] = v}

----------------------------------------------------------------------------
(* The catalog *)

M001 == "001_create_users_table"
M002 == "002_create_contacts_table"
M003 == "003_fix_schema_migrations_table"

\* The catalog with its first two entries exchanged
GetMigrationsSwapped == <<M002, M001, M003>>

GetMigrations == <<M001, M002, M003>>

NMigrations == Len(GetMigrations)

\* The result of running statements on database d: the database after, whether
\* an error was returned, and whether a connection failure was among the causes.
Res(d, err, flt) == [d |-> d, err |-> err, flt |-> flt]

\* 001 Up: CREATE TABLE IF NOT EXISTS users
Up001(d, F) ==
    IF 1 \in F THEN Res(d, TRUE, TRUE)
    ELSE Res([d EXCEPT !.users = TRUE], FALSE, FALSE)

\* 001 Down: DROP TABLE IF EXISTS users; contacts references users(id)
Down001(d, F) ==
    IF 1 \in F THEN Res(d, TRUE, TRUE)
    ELSE IF d.users /\ d.contacts THEN Res(d, TRUE, FALSE)
    ELSE Res([d EXCEPT !.users = FALSE], FALSE, FALSE)

\* 002 Up: CREATE TABLE IF NOT EXISTS contacts (... FOREIGN KEY (user_id)
\* REFERENCES users(id) ...)
Up002(d, F) ==
    IF 1 \in F THEN Res(d, TRUE, TRUE)
    ELSE IF d.contacts THEN Res(d, FALSE, FALSE)
    ELSE IF ~d.users THEN Res(d, TRUE, FALSE)
    ELSE Res([d EXCEPT !.contacts = TRUE], FALSE, FALSE)

\* 002 Down that drops users along with contacts
Down002DropsUsers(d, F) ==
    IF 1 \in F THEN Res(d, TRUE, TRUE)
    ELSE Res([d EXCEPT !.contacts = FALSE, !.users = FALSE], FALSE, FALSE)

\* 002 Down: DROP TABLE IF EXISTS contacts
Down002(d, F) ==
    IF 1 \in F THEN Res(d, TRUE, TRUE)
    ELSE Res([d EXCEPT !.contacts = FALSE], FALSE, FALSE)

\* DESCRIBE's Default field is NULL for a column declared without DEFAULT; of the
\* ledger's columns only applied_at has one.  rows.Scan into a Go string
\* fails on NULL.
DefaultIsNull(col) == col # "applied_at"

\* 003 Up, from "Table exists, check its structure" on: DESCRIBE, the column
\* scan, and the rename / create / copy / drop.
\* Statements: 3 DESCRIBE, 4 rows.Scan, 5 RENAME, 6 CREATE, 7 INSERT..SELECT, 8 DROP
Repair003(d, F) ==
    LET t == d.sm
        hasIdColumn == "id" \in t.cols
        hasNameColumn == "name" \in t.cols
        hasVersionColumn == "version" \in t.cols
        renamed == [d EXCEPT !.old = t, !.sm = NoTable]
        created == [renamed EXCEPT !.sm = CanonicalTable]
        copyName(x) == IF hasNameColumn THEN x.name ELSE x.id
        copied == [created EXCEPT !.sm.rows =
                      {LedgerRow(x.id, Null, copyName(x), x.applied_at) : x \in t.rows}]
        migrated == IF hasIdColumn THEN copied ELSE created
        dropped == [migrated EXCEPT !.old = NoTable]
    IN  IF 3 \in F \/ ~t.exists THEN Res(d, TRUE, 3 \in F)
        ELSE IF 4 \in F \/ \E c \in t.cols : DefaultIsNull(c)
            THEN Res(d, TRUE, 4 \in F)
        ELSE IF hasVersionColumn /\ hasNameColumn THEN Res(d, FALSE, FALSE)
        ELSE IF 5 \in F \/ d.old.exists THEN Res(d, TRUE, 5 \in F)
        ELSE IF 6 \in F THEN Res(renamed, TRUE, TRUE)
        ELSE IF hasIdColumn /\ (7 \in F \/ "applied_at" \notin t.cols)
            THEN Res(created, TRUE, 7 \in F)
        ELSE IF 8 \in F THEN Res(migrated, TRUE, TRUE)
        ELSE Res(dropped, FALSE, FALSE)

\* 003 Up that drops and recreates the ledger table whatever its shape
Up003Recreates(d, F) == Res([d EXCEPT !.sm = CanonicalTable], FALSE, FALSE)

\* 003 Up.  Statement 1 is QueryRow("SHOW TABLES LIKE 'schema_migrations'")
\* .Scan(&tableExists) with tableExists a bool: with the table present the one
\* row holds the table's name, which does not convert to bool, so Scan returns
\* a conversion error; with the table absent it returns sql.ErrNoRows.  The
\* branch "err != nil && err.Error() != no rows" is therefore taken when the
\* table exists or the query fails, and runs statement 2, CREATE TABLE IF NOT
\* EXISTS schema_migrations.
Up003(d, F) ==
    LET showErr == 1 \in F \/ d.sm.exists
    IN  IF showErr
        THEN IF 2 \in F THEN Res(d, TRUE, TRUE)
             ELSE IF d.sm.exists THEN Res(d, FALSE, 1 \in F)
             ELSE Res([d EXCEPT !.sm = CanonicalTable], FALSE, 1 \in F)
        ELSE Repair003(d, F)

\* 003 Down that drops the contacts table
Down003DropsContacts(d, F) == Res([d EXCEPT !.contacts = FALSE], FALSE, FALSE)

\* 003 Down: "This migration is not reversible as it's a fix": return nil
Down003(d, F) == Res(d, FALSE, FALSE)

\* migration.Up(tx) / migration.Down(tx) of the migration with this ID
Up(id, d, F) ==
    CASE id = M001 -> Up001(d, F)
      [] id = M002 -> Up002(d, F)
      [] OTHER -> Up003(d, F)

Down(id, d, F) ==
    CASE id = M001 -> Down001(d, F)
      [] id = M002 -> Down002(d, F)
      [] OTHER -> Down003(d, F)

\* The statements a migration body may run, as the indices a connection
\* failure can hit
UpStmts(id) == IF id = M003 THEN 1..8 ELSE {1}
DownStmts(id) == IF id = M003 THEN {} ELSE {1}

----------------------------------------------------------------------------
(* The ledger *)

\* CreateMigrationsTable that replaces the table it finds
CreateMigrationsTableReplaces(d, F) ==
    IF 1 \in F THEN Res(d, TRUE, TRUE)
    ELSE Res([d EXCEPT !.sm = CanonicalTable], FALSE, FALSE)

\* CreateMigrationsTable: CREATE TABLE IF NOT EXISTS schema_migrations (...)
CreateMigrationsTable(d, F) ==
    IF 1 \in F THEN Res(d, TRUE, TRUE)
    ELSE IF d.sm.exists THEN Res(d, FALSE, FALSE)
    ELSE Res([d EXCEPT !.sm = CanonicalTable], FALSE, FALSE)

\* IsMigrationApplied that never finds the row
IsMigrationAppliedNever(d, id, F) ==
    [applied |-> FALSE, err |-> FALSE, flt |-> FALSE, legacy |-> FALSE]

\* IsMigrationApplied with count >= 0 for count > 0
IsMigrationAppliedAlways(d, id, F) ==
    [applied |-> TRUE, err |-> WhereFails(d.sm, "version") /\ WhereFails(d.sm, "id"),
     flt |-> FALSE, legacy |-> FALSE]

\* IsMigrationApplied without the query on id
IsMigrationAppliedNoFallback(d, id, F) ==
    LET fail1 == 1 \in F \/ WhereFails(d.sm, "version")
    IN  [applied |-> ~fail1 /\ Cardinality(Matching(d.sm, "version", id)) > 0,
         err |-> fail1, flt |-> 1 \in F, legacy |-> FALSE]

\* IsMigrationApplied: SELECT COUNT(*) ... WHERE version = ?, and if that
\* fails SELECT COUNT(*) ... WHERE id = ?; count > 0
IsMigrationApplied(d, id, F) ==
    LET t == d.sm
        fail1 == 1 \in F \/ WhereFails(t, "version")
        fail2 == 2 \in F \/ WhereFails(t, "id")
    IN  IF ~fail1
        THEN [applied |-> Cardinality(Matching(t, "version", id)) > 0,
              err |-> FALSE, flt |-> FALSE, legacy |-> FALSE]
        ELSE IF ~fail2
        THEN [applied |-> Cardinality(Matching(t, "id", id)) > 0,
              err |-> FALSE, flt |-> 1 \in F, legacy |-> TRUE]
        ELSE [applied |-> FALSE, err |-> TRUE,
              flt |-> 1 \in F \/ 2 \in F, legacy |-> TRUE]

\* MarkMigrationApplied that reports success without inserting a row
MarkMigrationAppliedNoRow(d, id, F) == Res(d, FALSE, FALSE)

\* MarkMigrationApplied without the INSERT on id
MarkMigrationAppliedNoFallback(d, id, F) ==
    LET r1 == LedgerRow(id, Null, id, Now)
        fail1 == 1 \in F \/ InsertFails(d.sm, r1, {"version", "name", "applied_at"})
    IN  IF ~fail1 THEN Res([d EXCEPT !.sm = Insert(d.sm, r1)], FALSE, FALSE)
        ELSE Res(d, TRUE, 1 \in F)

\* MarkMigrationApplied: INSERT (version, name, applied_at) VALUES (id, id,
\* NOW()), and if that fails INSERT (id, name, applied_at) VALUES (id, id, NOW())
MarkMigrationApplied(d, id, F) ==
    LET t == d.sm
        r1 == LedgerRow(id, Null, id, Now)
        r2 == LedgerRow(Null, id, id, Now)
        fail1 == 1 \in F \/ InsertFails(t, r1, {"version", "name", "applied_at"})
        fail2 == 2 \in F \/ InsertFails(t, r2, {"id", "name", "applied_at"})
    IN  IF ~fail1 THEN Res([d EXCEPT !.sm = Insert(t, r1)], FALSE, FALSE)
        ELSE IF ~fail2 THEN Res([d EXCEPT !.sm = Insert(t, r2)], FALSE, 1 \in F)
        ELSE Res(d, TRUE, 1 \in F \/ 2 \in F)

\* MarkMigrationUnapplied whose WHERE is inverted (version != ?)
MarkMigrationUnappliedOthers(d, id, F) ==
    IF ~d.sm.exists THEN Res(d, TRUE, FALSE)
    ELSE Res([d EXCEPT !.sm.rows = Matching(d.sm, "version", id)], FALSE, FALSE)

\* MarkMigrationUnapplied whose DELETE has no WHERE
MarkMigrationUnappliedDeletesAll(d, id, F) ==
    IF ~d.sm.exists THEN Res(d, TRUE, FALSE)
    ELSE Res([d EXCEPT !.sm.rows = {}], FALSE, FALSE)

\* MarkMigrationUnapplied whose DELETE matches no row
MarkMigrationUnappliedKeepsRow(d, id, F) == Res(d, FALSE, FALSE)

\* MarkMigrationUnapplied: DELETE ... WHERE version = ?, and if that fails
\* DELETE ... WHERE id = ?
MarkMigrationUnapplied(d, id, F) ==
    LET t == d.sm
        fail1 == 1 \in F \/ WhereFails(t, "version")
        fail2 == 2 \in F \/ WhereFails(t, "id")
        del(col) == [d EXCEPT !.sm.rows = @ \ Matching(t, col, id)]
    IN  IF ~fail1 THEN Res(del("version"), FALSE, FALSE)
        ELSE IF ~fail2 THEN Res(del("id"), FALSE, 1 \in F)
        ELSE Res(d, TRUE, 1 \in F \/ 2 \in F)

\* A database with no table at all
FreshDB == [users |-> FALSE, contacts |-> FALSE, sm |-> NoTable, old |-> NoTable]

----------------------------------------------------------------------------
(* The transaction handle *)

\* Rollback that leaves the transaction's statements in place
RollbackKeepsWork(committed, w) == w

\* Commit that publishes nothing
CommitLosesWork(committed, w) == committed

\* tx.Rollback(): the committed database stays as it was; w is what the
\* transaction had done
Rollback(committed, w) == committed

\* tx.Commit(): what the transaction has done becomes the committed database
Commit(committed, w) == w

----------------------------------------------------------------------------
(* The Runner *)

\* What a call returned: nil, or fmt.Errorf("failed to <step> ... %s: %w", id, err)
Nil == [ok |-> TRUE, step |-> "nil", id |-> Null]
Running == [ok |-> TRUE, step |-> "running", id |-> Null]
\* an error whose message names no migration
ErrWithoutId(step, id) == [ok |-> FALSE, step |-> step, id |-> Null]

\* fmt.Errorf("failed to <step> [for] <id>: %w", err)
Err(step, id) == [ok |-> FALSE, step |-> step, id |-> id]


NoCall == [op |-> "none", ok |-> TRUE, db |-> FreshDB]

Applied(d, id) == \E x \in d.sm.rows : x.version = id \/ x.id = id

\* A call starts: the history variables take the previous call's summary
StartCall(c) ==
    /\ pc = "idle"
    /\ op' = c
    /\ h2' = h1
    /\ h1' = [op |-> op, ok |-> ret.ok, db |-> db]
    /\ pre' = db

\* return from the call
Return(r) ==
    /\ pc' = "idle"
    /\ ret' = r
    /\ idx' = idx

Called(kind) == calls' = Append(calls, <<kind, GetMigrations[idx]>>)
Logged(line) == out' = Append(out, <<line, GetMigrations[idx]>>)

\* MigrateUp, lines 20-28: CreateMigrationsTable, then the loop starts
MigrateUp ==
    /\ StartCall("up")
    /\ \E F \in SUBSET {1} :
         LET r == CreateMigrationsTable(db, F)
         IN  /\ db' = r.d
             /\ work' = r.d
             /\ faulted' = r.flt
             /\ calls' = << <<"CreateMigrationsTable", Null>> >>
             /\ out' = <<>>
             /\ IF r.err
                THEN /\ pc' = "idle"
                     /\ ret' = Err("create migrations table", Null)
                     /\ idx' = idx
                ELSE /\ pc' = "up_check"
                     /\ ret' = Running
                     /\ idx' = 1
    /\ UNCHANGED <<other, txOpen, lastTx, atBegin>>

\* the for loop of MigrateUp moves to the next migration, or ends: return nil
UpNext ==
    IF idx < NMigrations
    THEN pc' = "up_check" /\ idx' = idx + 1 /\ ret' = ret
    ELSE Return(Nil)

\* MigrateUp, lines 31-41: IsMigrationApplied, skip when applied
UpCheck ==
    /\ pc = "up_check"
    /\ \E F \in SUBSET {1, 2} :
         LET r == IsMigrationApplied(db, GetMigrations[idx], F)
         IN  /\ faulted' = (faulted \/ r.flt)
             /\ Called("IsMigrationApplied")
             /\ IF r.err
                THEN Return(Err("check migration status", GetMigrations[idx]))
                     /\ out' = out
                ELSE IF r.applied
                THEN Logged("already applied, skipping") /\ UpNext
                ELSE /\ Logged("Applying migration")
                     /\ pc' = "up_begin" /\ idx' = idx /\ ret' = ret
    /\ UNCHANGED <<other, db, work, txOpen, op, pre, atBegin, lastTx, h1, h2>>

\* MigrateUp that ignores the error of r.db.Begin() and goes on to Up
UpBeginIgnoresError ==
    /\ pc = "up_begin"
    /\ Called("Begin")
    /\ \E fail \in BOOLEAN :
         /\ faulted' = (faulted \/ fail)
         /\ txOpen' = ~fail
    /\ pc' = "up_run" /\ idx' = idx /\ ret' = ret
    /\ atBegin' = db
    /\ UNCHANGED <<other, db, work, op, out, pre, lastTx, h1, h2>>

\* MigrateUp, lines 44-47: r.db.Begin()
UpBegin ==
    /\ pc = "up_begin"
    /\ Called("Begin")
    /\ \E fail \in BOOLEAN :
         IF fail
         THEN /\ faulted' = TRUE
              /\ txOpen' = txOpen
              /\ Return(Err("start transaction for migration", GetMigrations[idx]))
         ELSE /\ faulted' = faulted
              /\ txOpen' = TRUE
              /\ pc' = "up_run" /\ idx' = idx /\ ret' = ret
    /\ atBegin' = db
    /\ UNCHANGED <<other, db, work, op, out, pre, lastTx, h1, h2>>

\* MigrateUp whose error path after Up returns without tx.Rollback()
UpRunNoRollback ==
    /\ pc = "up_run"
    /\ \E F \in SUBSET UpStmts(GetMigrations[idx]) :
         LET r == Up(GetMigrations[idx], work, F)
         IN  /\ faulted' = (faulted \/ r.flt)
             /\ Called("Up")
             /\ db' = db
             /\ work' = r.d
             /\ txOpen' = txOpen
             /\ IF r.err
                THEN Return(Err("run migration", GetMigrations[idx]))
                ELSE pc' = "up_mark" /\ idx' = idx /\ ret' = ret
    /\ UNCHANGED <<other, op, out, pre, atBegin, lastTx, h1, h2>>

\* MigrateUp, lines 50-53: migration.Up(tx); on error tx.Rollback() and return
UpRun ==
    /\ pc = "up_run"
    /\ \E F \in SUBSET UpStmts(GetMigrations[idx]) :
         LET r == Up(GetMigrations[idx], work, F)
         IN  /\ faulted' = (faulted \/ r.flt)
             /\ IF r.err
                THEN /\ calls' = calls \o << <<"Up", GetMigrations[idx]>>,
                                            <<"Rollback", GetMigrations[idx]>> >>
                     /\ db' = Rollback(db, r.d)
                     /\ work' = db'
                     /\ txOpen' = FALSE
                     /\ Return(Err("run migration", GetMigrations[idx]))
                ELSE /\ Called("Up")
                     /\ db' = db
                     /\ work' = r.d
                     /\ txOpen' = txOpen
                     /\ pc' = "up_mark" /\ idx' = idx /\ ret' = ret
    /\ UNCHANGED <<other, op, out, pre, atBegin, lastTx, h1, h2>>

\* MigrateUp, lines 56-59: MarkMigrationApplied(tx, id); on error tx.Rollback()
UpMark ==
    /\ pc = "up_mark"
    /\ \E F \in SUBSET {1, 2} :
         LET r == MarkMigrationApplied(work, GetMigrations[idx], F)
         IN  /\ faulted' = (faulted \/ r.flt)
             /\ IF r.err
                THEN /\ calls' = calls \o << <<"MarkMigrationApplied", GetMigrations[idx]>>,
                                            <<"Rollback", GetMigrations[idx]>> >>
                     /\ db' = Rollback(db, r.d)
                     /\ work' = db'
                     /\ txOpen' = FALSE
                     /\ Return(Err("mark migration as applied", GetMigrations[idx]))
                ELSE /\ Called("MarkMigrationApplied")
                     /\ db' = db
                     /\ work' = r.d
                     /\ txOpen' = txOpen
                     /\ pc' = "up_commit" /\ idx' = idx /\ ret' = ret
    /\ UNCHANGED <<other, op, out, pre, atBegin, lastTx, h1, h2>>

\* MigrateUp that ignores the error of tx.Commit(): logs success and goes on
UpCommitIgnoresError ==
    /\ pc = "up_commit"
    /\ Called("Commit")
    /\ txOpen' = FALSE
    /\ \E fail \in BOOLEAN :
         /\ faulted' = (faulted \/ fail)
         /\ db' = IF fail THEN db ELSE Commit(db, work)
         /\ work' = db'
         /\ lastTx' = IF fail THEN lastTx ELSE [lastTx EXCEPT ![GetMigrations[idx]] = "apply"]
    /\ Logged("Successfully applied migration")
    /\ UpNext
    /\ UNCHANGED <<other, op, pre, atBegin, h1, h2>>

\* MigrateUp, lines 62-66: tx.Commit(); a failed Commit leaves the
\* transaction's work unpublished
UpCommit ==
    /\ pc = "up_commit"
    /\ Called("Commit")
    /\ txOpen' = FALSE
    /\ \E fail \in BOOLEAN :
         IF fail
         THEN /\ faulted' = TRUE
              /\ db' = db
              /\ work' = db
              /\ out' = out
              /\ lastTx' = lastTx
              /\ Return(Err("commit migration", GetMigrations[idx]))
         ELSE /\ faulted' = faulted
              /\ db' = Commit(db, work)
              /\ work' = db'
              /\ Logged("Successfully applied migration")
              /\ lastTx' = [lastTx EXCEPT ![GetMigrations[idx]] = "apply"]
              /\ UpNext
    /\ UNCHANGED <<other, op, pre, atBegin, h1, h2>>

\* MigrateDown, lines 74-85: the reverse scan starts at the last migration
MigrateDown ==
    /\ StartCall("down")
    /\ pc' = "down_scan"
    /\ idx' = NMigrations
    /\ ret' = Running
    /\ out' = <<>>
    /\ calls' = <<>>
    /\ faulted' = FALSE
    /\ UNCHANGED <<other, db, work, txOpen, lastTx, atBegin>>

\* MigrateDown, lines 85-101: IsMigrationApplied from the last migration
\* down; the first applied one is lastMigration; none: return nil
DownScan ==
    /\ pc = "down_scan"
    /\ \E F \in SUBSET {1, 2} :
         LET r == IsMigrationApplied(db, GetMigrations[idx], F)
         IN  /\ faulted' = (faulted \/ r.flt)
             /\ Called("IsMigrationApplied")
             /\ IF r.err
                THEN Return(Err("check migration status", GetMigrations[idx]))
                     /\ out' = out
                ELSE IF r.applied
                THEN /\ Logged("Rolling back migration")
                     /\ pc' = "down_begin" /\ idx' = idx /\ ret' = ret
                ELSE IF idx > 1
                THEN pc' = pc /\ idx' = idx - 1 /\ ret' = ret /\ out' = out
                ELSE /\ out' = Append(out, <<"No applied migrations to roll back", Null>>)
                     /\ Return(Nil)
    /\ UNCHANGED <<other, db, work, txOpen, op, pre, atBegin, lastTx, h1, h2>>

\* MigrateDown, lines 104-107: r.db.Begin()
DownBegin ==
    /\ pc = "down_begin"
    /\ Called("Begin")
    /\ \E fail \in BOOLEAN :
         IF fail
         THEN /\ faulted' = TRUE
              /\ txOpen' = txOpen
              /\ Return(Err("start transaction for rollback", GetMigrations[idx]))
         ELSE /\ faulted' = faulted
              /\ txOpen' = TRUE
              /\ pc' = "down_run" /\ idx' = idx /\ ret' = ret
    /\ atBegin' = db
    /\ UNCHANGED <<other, db, work, op, out, pre, lastTx, h1, h2>>

\* MigrateDown, lines 110-113: lastMigration.Down(tx); on error tx.Rollback()
DownRun ==
    /\ pc = "down_run"
    /\ \E F \in SUBSET DownStmts(GetMigrations[idx]) :
         LET r == Down(GetMigrations[idx], work, F)
         IN  /\ faulted' = (faulted \/ r.flt)
             /\ IF r.err
                THEN /\ calls' = calls \o << <<"Down", GetMigrations[idx]>>,
                                            <<"Rollback", GetMigrations[idx]>> >>
                     /\ db' = Rollback(db, r.d)
                     /\ work' = db'
                     /\ txOpen' = FALSE
                     /\ Return(Err("rollback migration", GetMigrations[idx]))
                ELSE /\ Called("Down")
                     /\ db' = db
                     /\ work' = r.d
                     /\ txOpen' = txOpen
                     /\ pc' = "down_mark" /\ idx' = idx /\ ret' = ret
    /\ UNCHANGED <<other, op, out, pre, atBegin, lastTx, h1, h2>>

\* MigrateDown, lines 116-119: MarkMigrationUnapplied(tx, id); on error
\* tx.Rollback()
DownMark ==
    /\ pc = "down_mark"
    /\ \E F \in SUBSET {1, 2} :
         LET r == MarkMigrationUnapplied(work, GetMigrations[idx], F)
         IN  /\ faulted' = (faulted \/ r.flt)
             /\ IF r.err
                THEN /\ calls' = calls \o << <<"MarkMigrationUnapplied", GetMigrations[idx]>>,
                                            <<"Rollback", GetMigrations[idx]>> >>
                     /\ db' = Rollback(db, r.d)
                     /\ work' = db'
                     /\ txOpen' = FALSE
                     /\ Return(Err("mark migration as unapplied", GetMigrations[idx]))
                ELSE /\ Called("MarkMigrationUnapplied")
                     /\ db' = db
                     /\ work' = r.d
                     /\ txOpen' = txOpen
                     /\ pc' = "down_commit" /\ idx' = idx /\ ret' = ret
    /\ UNCHANGED <<other, op, out, pre, atBegin, lastTx, h1, h2>>

\* MigrateDown, lines 122-127: tx.Commit()
DownCommit ==
    /\ pc = "down_commit"
    /\ Called("Commit")
    /\ txOpen' = FALSE
    /\ \E fail \in BOOLEAN :
         IF fail
         THEN /\ faulted' = TRUE
              /\ db' = db
              /\ work' = db
              /\ out' = out
              /\ lastTx' = lastTx
              /\ Return(Err("commit rollback", GetMigrations[idx]))
         ELSE /\ faulted' = faulted
              /\ db' = Commit(db, work)
              /\ work' = db'
              /\ Logged("Successfully rolled back migration")
              /\ lastTx' = [lastTx EXCEPT ![GetMigrations[idx]] = "revert"]
              /\ Return(Nil)
    /\ UNCHANGED <<other, op, pre, atBegin, h1, h2>>

\* Status that starts with CreateMigrationsTable, as MigrateUp does
StatusEnsuresTable ==
    /\ StartCall("status")
    /\ pc' = "status_check"
    /\ idx' = 1
    /\ ret' = Running
    /\ out' = <<>>
    /\ calls' = <<>>
    /\ faulted' = FALSE
    /\ db' = CreateMigrationsTable(db, {}).d
    /\ work' = db'
    /\ UNCHANGED <<other, txOpen, lastTx, atBegin>>

\* Status, lines 131-134
Status ==
    /\ StartCall("status")
    /\ pc' = "status_check"
    /\ idx' = 1
    /\ ret' = Running
    /\ out' = <<>>
    /\ calls' = <<>>
    /\ faulted' = FALSE
    /\ UNCHANGED <<other, db, work, txOpen, lastTx, atBegin>>

\* Status, lines 136-150: IsMigrationApplied and one line per migration; a
\* read error returns from Status
StatusCheck ==
    /\ pc = "status_check"
    /\ \E F \in SUBSET {1, 2} :
         LET r == IsMigrationApplied(db, GetMigrations[idx], F)
         IN  /\ faulted' = (faulted \/ r.flt)
             /\ Called("IsMigrationApplied")
             /\ IF r.err
                THEN Return(Err("check migration status", GetMigrations[idx]))
                     /\ out' = out
                ELSE /\ Logged(IF r.applied THEN "Applied" ELSE "Pending")
                     /\ IF idx < NMigrations
                        THEN pc' = pc /\ idx' = idx + 1 /\ ret' = ret
                        ELSE Return(Nil)
    /\ UNCHANGED <<other, db, work, txOpen, op, pre, atBegin, lastTx, h1, h2>>

----------------------------------------------------------------------------
(* Specifications *)

\* The state of a process that has made no call yet
NotStarted ==
    [op |-> "none", pc |-> "idle", idx |-> 1,
     ret |-> [ok |-> TRUE, step |-> "none", id |-> Null],
     out |-> <<>>, calls |-> <<>>, pre |-> FreshDB, atBegin |-> FreshDB, faulted |-> FALSE,
     h1 |-> NoCall, h2 |-> NoCall]

InitFrom(d) ==
    /\ db = d
    /\ work = d
    /\ txOpen = FALSE
    /\ op = "none"
    /\ pc = "idle"
    /\ idx = 1
    /\ ret = [ok |-> TRUE, step |-> "none", id |-> Null]
    /\ out = <<>>
    /\ calls = <<>>
    /\ pre = d
    /\ atBegin = d
    /\ faulted = FALSE
    /\ lastTx = [i \in {M001, M002, M003} |-> IF Applied(d, i) THEN "apply" ELSE "none"]
    /\ h1 = NoCall
    /\ h2 = NoCall
    /\ other = NotStarted

\* A fresh database: the runner is constructed on a connection to a database
\* without tables
Init == InitFrom(FreshDB)

Next ==
    \/ MigrateUp \/ UpCheck \/ UpBegin \/ UpRun \/ UpMark \/ UpCommit
    \/ MigrateDown \/ DownScan \/ DownBegin \/ DownRun \/ DownMark \/ DownCommit
    \/ Status \/ StatusCheck

Spec == Init /\ [][Next]_vars

\* Databases an operator may hand to the runner: business tables created or
\* not (contacts needs users), and a ledger table that is absent, canonical,
\* of a legacy shape keyed by id (with or without name), or of no recognizable
\* shape, holding rows written earlier.
LegacyFullTable == [exists |-> TRUE, cols |-> {"id", "name", "applied_at"}, pk |-> "id", rows |-> {}]
LegacyMinTable == [exists |-> TRUE, cols |-> {"id", "applied_at"}, pk |-> "id", rows |-> {}]
UnknownTable == [exists |-> TRUE, cols |-> {"applied_at"}, pk |-> Null, rows |-> {}]

InitialLedgers ==
    {NoTable, UnknownTable}
    \cup {[CanonicalTable EXCEPT !.rows = {LedgerRow(i, Null, i, "t1") : i \in S}] :
            S \in SUBSET {M001, M002, M003}}
    \cup {[LegacyFullTable EXCEPT !.rows = {LedgerRow(Null, i, i, "t1") : i \in S}] :
            S \in SUBSET {M001, M002}}
    \cup {[LegacyMinTable EXCEPT !.rows = {LedgerRow(Null, i, Null, "t1") : i \in S}] :
            S \in SUBSET {M001}}

InitialDBs ==
    {d \in [users : BOOLEAN, contacts : BOOLEAN, sm : InitialLedgers, old : {NoTable}] :
        d.contacts => d.users}

InitAny == \E d \in InitialDBs : InitFrom(d)

SpecAny == InitAny /\ [][Next]_vars

\* The runner is sequential code and every database call it makes returns
\* (with a result or an error): a call that has started keeps taking steps
SpecAnyFair == SpecAny /\ WF_vars(Next)

----------------------------------------------------------------------------
(* The Up of 003 as a function of the database *)

\* GetMigrations()[2].Up called on a transaction of any database, the way
\* MigrateUp calls it (Begin, Up, then Rollback on error and Commit otherwise)
\* but without the CreateMigrationsTable that MigrateUp runs first, so that
\* the ledger table may be absent when Up starts.
ApplyUp003 ==
    /\ StartCall("up003")
    /\ \E F \in SUBSET UpStmts(M003) :
         LET r == Up(M003, db, F)
         IN  /\ faulted' = r.flt
             /\ calls' = << <<"Begin", M003>>, <<"Up", M003>>,
                            <<IF r.err THEN "Rollback" ELSE "Commit", M003>> >>
             /\ db' = IF r.err THEN Rollback(db, r.d) ELSE Commit(db, r.d)
             /\ work' = db'
             /\ ret' = IF r.err THEN Err("run migration", M003) ELSE Nil
    /\ pc' = "idle"
    /\ idx' = idx
    /\ out' = <<>>
    /\ atBegin' = db
    /\ UNCHANGED <<other, txOpen, lastTx>>

NextUp003 == ApplyUp003

SpecUp003 == InitAny /\ [][NextUp003]_vars

----------------------------------------------------------------------------
(* Two invocations of the migrate command on one database *)

\* The running process's own state
Locals ==
    [op |-> op, pc |-> pc, idx |-> idx, ret |-> ret, out |-> out, calls |-> calls,
     pre |-> pre, atBegin |-> atBegin, faulted |-> faulted, h1 |-> h1, h2 |-> h2]

\* The other process takes the next database step.  The runner takes no lock
\* (runner.go has none before Begin), so the two processes' steps interleave
\* freely; the database keeps transactions isolated: between Begin and
\* Commit/Rollback of one process the other one does not see its statements,
\* which the model renders by not letting the other process step inside an
\* open transaction (its reads then see what they would see before Begin).
Switch ==
    /\ ~txOpen
    /\ other' = Locals
    /\ op' = other.op
    /\ pc' = other.pc
    /\ idx' = other.idx
    /\ ret' = other.ret
    /\ out' = other.out
    /\ calls' = other.calls
    /\ pre' = other.pre
    /\ atBegin' = other.atBegin
    /\ faulted' = other.faulted
    /\ h1' = other.h1
    /\ h2' = other.h2
    /\ UNCHANGED <<db, work, txOpen, lastTx>>

\* Databases the runner has left behind: the canonical ledger table exists
\* and records 001 and 002 exactly when their tables exist
MigratedDBs ==
    {d \in InitialDBs :
        /\ d.sm.exists /\ d.sm.cols = CanonicalCols
        /\ Applied(d, M001) <=> d.users
        /\ Applied(d, M002) <=> d.contacts}

InitTwo == \E d \in MigratedDBs : InitFrom(d)

\* Each of the two processes runs `migrate -command=up` or `-command=down` once
NextTwo ==
    \/ (op = "none" /\ MigrateUp)
    \/ (op = "none" /\ MigrateDown)
    \/ UpCheck \/ UpBegin \/ UpRun \/ UpMark \/ UpCommit
    \/ DownScan \/ DownBegin \/ DownRun \/ DownMark \/ DownCommit
    \/ Switch

SpecTwo == InitTwo /\ [][NextTwo]_vars

----------------------------------------------------------------------------
(* Vocabulary of the properties *)

Pos(id) == CHOOSE i \in 1..NMigrations : GetMigrations[i] = id

\* What the migration's Up establishes in the schema
Effect(d, id) ==
    CASE id = M001 -> d.users
      [] id = M002 -> d.contacts
      [] OTHER -> d.sm.exists /\ {"version", "name"} \subseteq d.sm.cols

\* The positions in calls of the database calls of one kind
Events(kind) == {k \in 1..Len(calls) : calls[k][1] = kind}

\* The running/last call has returned
Returned(c) == pc = "idle" /\ op = c /\ ret.step # "none"

FailedAt(c, steps) == Returned(c) /\ ret.step \in steps

----------------------------------------------------------------------------
(* C1 *)

\* C1: outside an open transaction, a ledger row for version V exists if and
\* only if the last committed transaction for migration V was an apply (Up +
\* MarkMigrationApplied) and not a revert (Down + MarkMigrationUnapplied),
\* after any sequence of MigrateUp, MigrateDown and Status calls in which any
\* statement, Begin or Commit may fail.
C1_LedgerInvariant ==
    ~txOpen =>
        \A i \in 1..NMigrations :
            (\E x \in db.sm.rows : x.version = GetMigrations[i])
                <=> lastTx[GetMigrations[i]] = "apply"

\* a failed call, after 002 was applied and reverted, with 001 still applied
C1_Witness ==
    /\ pc = "idle" /\ ~txOpen /\ ~ret.ok
    /\ lastTx[M001] = "apply" /\ lastTx[M002] = "revert"
    /\ Applied(db, M001) /\ ~Applied(db, M002)

----------------------------------------------------------------------------
(* C2 *)

----------------------------------------------------------------------------
(* C4 *)

UpIds == [k \in 1..Cardinality(Events("Up")) |->
            SelectSeq(calls, LAMBDA e : e[1] = "Up")[k][2]]

\* C4: from a fresh database MigrateUp invokes the Ups in catalog order; when
\* Up of the i-th migration starts, every earlier migration is committed, in
\* the ledger and in the schema; so an Up fails only by a connection failure,
\* never for lack of what an earlier migration establishes; a successful
\* first run invokes exactly the catalog, in order.
C4_OrderPreservation ==
    /\ \A a, b \in Events("Up") : a < b => Pos(calls[a][2]) < Pos(calls[b][2])
    /\ pc = "up_run" =>
          \A j \in 1..(idx - 1) :
              Applied(db, GetMigrations[j]) /\ Effect(db, GetMigrations[j])
    /\ FailedAt("up", {"run migration"}) => faulted
    /\ (Returned("up") /\ ret.ok /\ pre = FreshDB) => UpIds = <<M001, M002, M003>>

\* the Up of the third migration is about to run in the first MigrateUp on a
\* fresh database
C4_Witness ==
    /\ pc = "up_run" /\ idx = 3 /\ pre = FreshDB
    /\ UpIds = <<M001, M002>>

----------------------------------------------------------------------------
(* C5 *)

\* C5: when Up or MarkMigrationApplied fails for migration K in MigrateUp,
\* K's transaction is rolled back (Rollback is the call's last database call
\* and the database is the one of before K's Begin), the call returns an
\* error, the call has run Begin, Up and MarkMigrationApplied at most once
\* for K and not at all for a migration after K, and every migration the
\* call committed before K is still in the ledger.
C5_AbortWithoutRetry ==
    FailedAt("up", {"run migration", "mark migration as applied"}) =>
        /\ ~ret.ok /\ ~txOpen
        /\ calls[Len(calls)] = <<"Rollback", ret.id>>
        /\ db = atBegin
        /\ \A kind \in {"Begin", "Up", "MarkMigrationApplied"} :
              /\ Cardinality({k \in Events(kind) : calls[k][2] = ret.id}) <= 1
              /\ \A k \in Events(kind) : Pos(calls[k][2]) <= Pos(ret.id)
        /\ \A k \in Events("Commit") : Applied(db, calls[k][2])

\* MarkMigrationApplied failed for 002 after the call had committed 001
C5_Witness ==
    /\ FailedAt("up", {"mark migration as applied"})
    /\ ret.id = M002
    /\ \E k \in Events("Commit") : calls[k][2] = M001
    /\ Applied(db, M001) /\ ~Applied(db, M002)

----------------------------------------------------------------------------
(* C3 *)

AllApplied(d) == \A i \in 1..NMigrations : Applied(d, GetMigrations[i])
NoneApplied(d) == \A i \in 1..NMigrations : ~Applied(d, GetMigrations[i])

\* C3: MigrateUp calls that follow one another and are hit by no connection
\* failure: the first one on a fresh database succeeds with every migration
\* recorded, and a call that follows a successful MigrateUp returns no error,
\* runs no Up, opens no transaction, adds no ledger row, and leaves ledger
\* and schema as the call before it left them.
C3_Idempotence ==
    (Returned("up") /\ ~faulted) =>
        /\ pre = FreshDB => (ret.ok /\ AllApplied(db))
        /\ (h1.op = "up" /\ h1.ok) =>
              /\ ret.ok
              /\ db = h1.db
              /\ Events("Up") = {}
              /\ Events("Begin") = {}
              /\ Events("MarkMigrationApplied") = {}

\* the third of three successive successful MigrateUp calls has returned
C3_Witness ==
    /\ Returned("up") /\ ~faulted /\ ret.ok
    /\ h1.op = "up" /\ h1.ok /\ h2.op = "up" /\ h2.ok
    /\ AllApplied(db) /\ db.users /\ db.contacts

----------------------------------------------------------------------------
(* C6 *)

\* the catalog position of the highest-ordered applied migration
Highest(d) ==
    CHOOSE i \in 1..NMigrations :
        /\ Applied(d, GetMigrations[i])
        /\ \A j \in (i + 1)..NMigrations : ~Applied(d, GetMigrations[j])

\* C6: for any non-empty set of applied migrations, a prefix of the catalog
\* or not, a successful MigrateDown reverts exactly one migration, the
\* applied one highest in the catalog: it runs that migration's Down and no
\* other, commits once, removes exactly that migration's ledger row and
\* leaves every other migration applied or pending as it was; with all three
\* applied, 001 and 002 stay applied and 003 becomes pending.
C6_RevertOne ==
    (Returned("down") /\ ret.ok /\ ~NoneApplied(pre)) =>
        LET m == GetMigrations[Highest(pre)]
        IN  /\ ~Applied(db, m)
            /\ \A i \in 1..NMigrations :
                  GetMigrations[i] # m =>
                      (Applied(db, GetMigrations[i]) <=> Applied(pre, GetMigrations[i]))
            /\ db.sm.rows = pre.sm.rows \ {x \in pre.sm.rows : x.version = m \/ x.id = m}
            /\ {calls[k] : k \in Events("Down")} = {<<"Down", m>>}
            /\ Cardinality(Events("Down")) = 1
            /\ Cardinality(Events("Commit")) = 1
            /\ AllApplied(pre) =>
                  (Applied(db, M001) /\ Applied(db, M002) /\ ~Applied(db, M003))

\* MigrateDown succeeded on a ledger holding 001 and 003 but not 002
C6_Witness ==
    /\ Returned("down") /\ ret.ok
    /\ Applied(pre, M001) /\ ~Applied(pre, M002) /\ Applied(pre, M003)
    /\ Applied(db, M001) /\ ~Applied(db, M002) /\ ~Applied(db, M003)

----------------------------------------------------------------------------
(* C7 *)

\* C7: on every database in which no catalog migration is applied, the fresh
\* database without tables included, a MigrateDown hit by no connection
\* failure returns no error, opens no transaction and changes neither ledger
\* nor schema.
C7_RevertNothingApplied ==
    (Returned("down") /\ ~faulted /\ NoneApplied(pre)) =>
        /\ ret.ok
        /\ Events("Begin") = {}
        /\ db = pre

----------------------------------------------------------------------------
(* C8 *)

----------------------------------------------------------------------------
(* C9 *)

Schema(d) == <<d.users, d.contacts, d.sm.exists, d.sm.cols, d.old.exists>>

Versions(d) == {x.version : x \in d.sm.rows} \cup {x.id : x \in d.sm.rows}

\* the migrations the running/last call reported as successfully applied
CommittedNow ==
    {out[k][2] : k \in {n \in 1..Len(out) : out[n][1] = "Successfully applied migration"}}

\* 001 and 002 have a Down that undoes their Up; 003's Down does nothing
Reversible(id) == id \in {M001, M002}

\* C9: MigrateUp leaves M as the highest applied migration, M's Down being
\* the inverse of its Up; MigrateDown succeeds; MigrateUp runs again.  Then
\* M's Up does not fail but by a connection failure, and once M is
\* committed again (and nothing after it) the schema and the set of ledger
\* versions are those the first MigrateUp left.
C9_RoundTrip ==
    (/\ op = "up" /\ h2.op = "up" /\ h1.op = "down" /\ h1.ok
     /\ ~NoneApplied(h2.db)
     /\ Reversible(GetMigrations[Highest(h2.db)])) =>
        LET m == GetMigrations[Highest(h2.db)]
        IN  /\ (FailedAt("up", {"run migration"}) /\ ret.id = m) => faulted
            /\ CommittedNow = {m} =>
                  /\ Schema(db) = Schema(h2.db)
                  /\ Versions(db) = Versions(h2.db)

\* 002 was applied, reverted and has just been committed again
C9_Witness ==
    /\ op = "up" /\ h2.op = "up" /\ h1.op = "down" /\ h1.ok
    /\ Applied(h2.db, M002) /\ ~Applied(h2.db, M003)
    /\ ~Applied(h1.db, M002) /\ ~h1.db.contacts
    /\ CommittedNow = {M002}
    /\ Applied(db, M002) /\ db.contacts

----------------------------------------------------------------------------
(* C10 *)

\* C10: a Status call that returns nil has written one line per catalog
\* migration, in catalog order, Applied exactly when a ledger row with the
\* migration's id exists and Pending otherwise; and Status returns nil
\* whenever the ledger table exists with a version or id column and no
\* connection failure hits the call.
C10_StatusAccuracy ==
    /\ (Returned("status") /\ ret.ok) =>
          out = [i \in 1..NMigrations |->
                    <<IF Applied(db, GetMigrations[i]) THEN "Applied" ELSE "Pending",
                      GetMigrations[i]>>]
    /\ (/\ Returned("status") /\ ~faulted
        /\ db.sm.exists /\ db.sm.cols \cap {"version", "id"} # {}) => ret.ok

\* only the first of the three migrations is applied
C10_Witness ==
    /\ Returned("status") /\ ret.ok
    /\ out = << <<"Applied", M001>>, <<"Pending", M002>>, <<"Pending", M003>> >>

----------------------------------------------------------------------------
(* C11 *)

\* C11: Status does not abort on a read failure: a Status call that has
\* returned has queried IsMigrationApplied for every catalog migration, in
\* catalog order, whatever the queries answered, and has not returned an
\* error.
C11_StatusContinues ==
    Returned("status") =>
        /\ ret.ok
        /\ calls = [i \in 1..NMigrations |-> <<"IsMigrationApplied", GetMigrations[i]>>]

----------------------------------------------------------------------------
(* C12 *)

\* The Up of 003 has returned nil inside MigrateUp: atBegin is the database
\* it was given, work the database it left
Up003Done == op = "up" /\ pc = "up_mark" /\ GetMigrations[idx] = M003

\* A ledger table keyed by id, without a version column
LegacyShape(t) == t.exists /\ "id" \in t.cols /\ "version" \notin t.cols

\* The canonical table holding one row per row of the legacy table t
Repaired(t) ==
    [CanonicalTable EXCEPT !.rows =
        {LedgerRow(x.id, Null, IF "name" \in t.cols THEN x.name ELSE x.id, x.applied_at) :
            x \in t.rows}]

\* C12: self-repair preserves legacy history: when the Up of 003 has
\* succeeded on a ledger table with an id column and no version column, the
\* ledger table has the canonical columns and holds exactly one row per
\* legacy row, with version = old id, applied_at kept and name = old name
\* (old id when there was no name column), and no schema_migrations_old
\* table is left.
C12_RepairPreservesHistory ==
    (Up003Done /\ LegacyShape(atBegin.sm)) =>
        /\ work.sm = Repaired(atBegin.sm)
        /\ ~work.old.exists

----------------------------------------------------------------------------
(* C13 *)

\* C13: self-repair on an absent ledger table: when the Up of 003 runs on a
\* database without a schema_migrations table and no connection failure hits
\* it, it returns nil and the table exists afterwards with the columns
\* (version, name, applied_at) and no rows.
C13_RepairCreatesAbsentLedger ==
    (Returned("up003") /\ ~pre.sm.exists /\ ~faulted) =>
        /\ ret.ok
        /\ db.sm = CanonicalTable

----------------------------------------------------------------------------
(* C14 *)

\* C14: self-repair on a canonical ledger table is a no-op: when the Up of
\* 003 has returned nil on a ledger table that has the columns version and
\* name, nothing was renamed, created, copied or dropped: the ledger table
\* (columns, key and rows), the schema_migrations_old name and the business
\* tables are as they were when the transaction began.
C14_CanonicalNoOp ==
    (Up003Done /\ {"version", "name"} \subseteq atBegin.sm.cols) =>
        /\ work.sm = atBegin.sm
        /\ work.old = atBegin.old /\ ~work.old.exists
        /\ work = atBegin

\* the Up of 003 has returned on a canonical table holding the rows of 001
\* and 002
C14_Witness ==
    /\ Up003Done
    /\ atBegin.sm.cols = CanonicalCols
    /\ {x.version : x \in atBegin.sm.rows} = {M001, M002}
    /\ work.sm.rows = atBegin.sm.rows

----------------------------------------------------------------------------
(* C15 *)

\* A ledger table with neither a version nor an id column
UnknownShape(t) == t.exists /\ "version" \notin t.cols /\ "id" \notin t.cols

\* C15: ledger-shape ambiguity is never an error: a MigrateUp call that met
\* no connection failure on a database whose ledger table has neither a
\* version nor an id column returns nil, and afterwards the ledger table is
\* the canonical one, holding no row taken from the old table, and no
\* schema_migrations_old table is left.
C15_UnknownShapeNoError ==
    (Returned("up") /\ UnknownShape(pre.sm) /\ ~faulted) =>
        /\ ret.ok
        /\ db.sm.exists /\ db.sm.cols = CanonicalCols
        /\ \A x \in db.sm.rows : x.version \in {M001, M002, M003} /\ x.applied_at = Now
        /\ ~db.old.exists

----------------------------------------------------------------------------
(* C17 *)

\* The canonical statements of IsMigrationApplied, MarkMigrationApplied and
\* MarkMigrationUnapplied find their columns, so that the fallback on id is
\* not run for lack of a column
CanonicalPathSucceeds(d) == d.sm.exists /\ {"version", "name"} \subseteq d.sm.cols

\* C17: after repair only the canonical path is used: once a transaction
\* applying 003 has been committed, in every later state the ledger table is
\* in canonical shape, as the committed database and as any open transaction
\* sees it, so that the statements on version succeed and the fallback
\* statements on id are not executed.
C17_CanonicalAfterRepair ==
    lastTx[M003] # "none" =>
        /\ CanonicalPathSucceeds(db)
        /\ CanonicalPathSucceeds(work)

----------------------------------------------------------------------------
(* C19 *)

\* A call of MigrateUp, MigrateDown or Status has returned an error
ReturnedError == pc = "idle" /\ op \in {"up", "down", "status"} /\ ~ret.ok

\* The database call that failed: the last one, or the one before the
\* Rollback that answered it
FailedCall ==
    IF calls[Len(calls)][1] = "Rollback" THEN calls[Len(calls) - 1] ELSE calls[Len(calls)]

\* The step an error message of the runner names for a failed database call
StepOf(c, kind) ==
    CASE kind = "CreateMigrationsTable" -> "create migrations table"
      [] kind = "IsMigrationApplied" -> "check migration status"
      [] kind = "Begin" -> IF c = "up" THEN "start transaction for migration"
                           ELSE "start transaction for rollback"
      [] kind = "Up" -> "run migration"
      [] kind = "Down" -> "rollback migration"
      [] kind = "MarkMigrationApplied" -> "mark migration as applied"
      [] kind = "MarkMigrationUnapplied" -> "mark migration as unapplied"
      [] kind = "Commit" -> IF c = "up" THEN "commit migration" ELSE "commit rollback"
      [] OTHER -> "none"

\* C19 as stated: every error returned by MigrateUp, MigrateDown or Status
\* carries the id of a catalog migration, the one being processed when the
\* failure occurred, whichever step failed, the creation of the ledger table
\* included.
C19_EveryErrorCarriesId ==
    ReturnedError => ret.id \in {GetMigrations[i] : i \in 1..NMigrations}

\* C19, amended: an error returned by MigrateUp, MigrateDown or Status names
\* the step that failed; when that step is a ledger read, Begin, Up/Down, a
\* ledger write or Commit, the error carries the id of the catalog migration
\* the failed database call was made for, which is the migration at the
\* loop's position; when it is the creation of the ledger table, which
\* MigrateUp runs before it processes any migration, the error carries no
\* migration id and CreateMigrationsTable is the only database call made.
C19_ErrorsCarryIdExceptCreateTable ==
    ReturnedError =>
        /\ Len(calls) > 0
        /\ ret.step = StepOf(op, FailedCall[1])
        /\ IF ret.step = "create migrations table"
           THEN /\ op = "up"
                /\ ret.id = Null
                /\ calls = << <<"CreateMigrationsTable", Null>> >>
           ELSE /\ ret.id \in {GetMigrations[i] : i \in 1..NMigrations}
                /\ ret.id = FailedCall[2]
                /\ ret.id = GetMigrations[idx]

\* the Commit of 002 failed in MigrateUp after 001 was committed
C19_Witness ==
    /\ ReturnedError /\ op = "up"
    /\ ret.step = "commit migration" /\ ret.id = M002
    /\ <<"Commit", M001>> \in {calls[k] : k \in 1..Len(calls)}

----------------------------------------------------------------------------
(* C20 *)

\* The catalog migrations without a ledger row in d, in catalog order
Pending(d) == SelectSeq(GetMigrations, LAMBDA m : ~Applied(d, m))

\* a MigrateUp call in which no step failed has returned
UpSucceeded == Returned("up") /\ ret.ok

C20_ExactlyThePending ==
    UpSucceeded =>
        /\ UpIds = Pending(pre)
        /\ AllApplied(db)
        /\ \A i \in 1..NMigrations :
              Applied(pre, GetMigrations[i]) =>
                  \A k \in 1..Len(calls) :
                      calls[k][2] = GetMigrations[i] => calls[k][1] = "IsMigrationApplied"

\* C20: MigrateUp completes from any ledger state: whatever set of
\* migrations the ledger records when the call starts (a prefix of the
\* catalog or not), a started MigrateUp call returns; and when no step of it
\* failed it has run Up exactly once for each pending migration, in catalog
\* order, has made no database call but the ledger read for a migration
\* already applied, and returns nil with every catalog migration recorded.
C20_ApplyAllCompletes ==
    /\ [] C20_ExactlyThePending
    /\ (op = "up" /\ pc # "idle") ~> Returned("up")

\* ApplyAll has succeeded on a ledger that recorded 002 only
C20_Witness ==
    /\ UpSucceeded
    /\ Applied(pre, M002) /\ ~Applied(pre, M001) /\ ~Applied(pre, M003)
    /\ UpIds = <<M001, M003>>

----------------------------------------------------------------------------
(* C18 *)

\* The migrations process L reported as applied / as rolled back
AppliedBy(L) ==
    {L.out[k][2] : k \in {n \in 1..Len(L.out) : L.out[n][1] = "Successfully applied migration"}}
RevertedBy(L) ==
    {L.out[k][2] : k \in {n \in 1..Len(L.out) : L.out[n][1] = "Successfully rolled back migration"}}

\* Process L's call has returned an error without a connection failure
FailedUnfaulted(L) == L.pc = "idle" /\ L.op # "none" /\ ~L.ret.ok /\ ~L.faulted

\* No two ledger rows for one version; no migration applied by both processes
OneRowPerVersion ==
    /\ \A x, y \in db.sm.rows : x.version = y.version => x = y
    /\ (op = "up" /\ other.op = "up") => AppliedBy(Locals) \cap AppliedBy(other) = {}

\* Outside a transaction a ledger row for V exists iff V's table exists (001,
\* 002); 003 is recorded only in a table of canonical shape
RowsMatchEffects ==
    ~txOpen =>
        /\ \A i \in {M001, M002} : Applied(db, i) <=> Effect(db, i)
        /\ Applied(db, M003) => Effect(db, M003)

CauseOfFailure(L, O) ==
    CASE L.ret.step = "mark migration as applied" -> L.ret.id \in AppliedBy(O)
      [] L.ret.step = "run migration" -> L.ret.id = M002 /\ M001 \in RevertedBy(O)
      [] L.ret.step = "rollback migration" -> L.ret.id = M001 /\ M002 \in AppliedBy(O)
      [] OTHER -> FALSE

----------------------------------------------------------------------------
(* C21 *)

\* The ledger table is of canonical shape or of a legacy shape keyed by id
KeyedShape(t) == t.exists /\ (("version" \in t.cols) # ("id" \in t.cols))

\* C21: IsMigrationApplied on the committed database, for every catalog id
\* and every pattern of connection failures: the query on id is run exactly
\* when the query on version failed; an error is returned exactly when both
\* failed; otherwise, on a table of canonical or legacy shape, the answer is
\* true exactly when the table holds a row whose key (version, or id in the
\* legacy shape) is the id asked for; when no connection failure hits the
\* call an error means that the table is absent or has neither column.
C21_DualSchemaRead ==
    \A i \in 1..NMigrations : \A F \in SUBSET {1, 2} :
        LET id == GetMigrations[i]
            r == IsMigrationApplied(db, id, F)
            canonicalFails == 1 \in F \/ WhereFails(db.sm, "version")
            legacyFails == 2 \in F \/ WhereFails(db.sm, "id")
        IN  /\ r.legacy <=> canonicalFails
            /\ r.err <=> (canonicalFails /\ legacyFails)
            /\ (~r.err /\ KeyedShape(db.sm)) =>
                  (r.applied <=> \E x \in db.sm.rows :
                                    IF "version" \in db.sm.cols THEN x.version = id
                                    ELSE x.id = id)
            /\ (F = {} /\ r.err) => (~db.sm.exists \/ ~KeyedShape(db.sm))

\* Status has reported 001 Applied and 002 Pending from a legacy table, which
\* only the query on id can read
C21_Witness ==
    /\ op = "status" /\ Len(out) >= 2
    /\ out[1] = <<"Applied", M001>> /\ out[2] = <<"Pending", M002>>
    /\ LegacyShape(db.sm)
    /\ IsMigrationApplied(db, M001, {}).legacy

----------------------------------------------------------------------------
(* C22 *)

\* The not-yet-repaired ledger table (id, name, applied_at)
LegacyFull(t) == t.exists /\ t.cols = {"id", "name", "applied_at"}

\* The rows of t whose key, version or id, is v
Keyed(t, v) == {x \in t.rows : x.version = v \/ x.id = v}

\* the line the running/last call logged last
LastLine == IF Len(out) = 0 THEN <<Null, Null>> ELSE out[Len(out)]

\* MarkMigrationApplied / MarkMigrationUnapplied about to run in the open
\* transaction: for every pattern of connection failures the call returns an
\* error exactly when both statements fail, writes through the statement on
\* version whenever that one does not fail, and changes one ledger row at
\* most and nothing else
C22_Writes ==
    /\ pc = "up_mark" =>
          \A F \in SUBSET {1, 2} :
              LET id == GetMigrations[idx]
                  r == MarkMigrationApplied(work, id, F)
                  fail1 == 1 \in F \/ InsertFails(work.sm, LedgerRow(id, Null, id, Now),
                                                  {"version", "name", "applied_at"})
                  fail2 == 2 \in F \/ InsertFails(work.sm, LedgerRow(Null, id, id, Now),
                                                  {"id", "name", "applied_at"})
              IN  /\ r.err <=> (fail1 /\ fail2)
                  /\ r.err => r.d = work
                  /\ ~r.err =>
                        /\ r.d = [work EXCEPT !.sm.rows = r.d.sm.rows]
                        /\ Cardinality(r.d.sm.rows) = Cardinality(work.sm.rows) + 1
                        /\ r.d.sm.rows \ work.sm.rows =
                              {IF fail1 THEN LedgerRow(Null, id, id, Now)
                               ELSE LedgerRow(id, Null, id, Now)}
    /\ pc = "down_mark" =>
          \A F \in SUBSET {1, 2} :
              LET id == GetMigrations[idx]
                  r == MarkMigrationUnapplied(work, id, F)
                  fail1 == 1 \in F \/ WhereFails(work.sm, "version")
                  fail2 == 2 \in F \/ WhereFails(work.sm, "id")
              IN  /\ r.err <=> (fail1 /\ fail2)
                  /\ r.err => r.d = work
                  /\ ~r.err =>
                        /\ r.d = [work EXCEPT !.sm.rows = r.d.sm.rows]
                        /\ r.d.sm.rows =
                              work.sm.rows \ Matching(work.sm, IF fail1 THEN "id" ELSE "version", id)

\* C22: dual-schema ledger writes: MarkMigrationApplied and
\* MarkMigrationUnapplied run the statement on version first and the
\* statement on id only if that fails, in the caller's transaction,
\* returning an error only if both fail; on a ledger table (id, name,
\* applied_at) a committed apply of V has added exactly one row, keyed id =
\* V, together with V's schema change, and a committed revert of V has
\* removed exactly that row together with V's schema change.
C22_DualSchemaWrites ==
    /\ C22_Writes
    /\ (op = "up" /\ LastLine[1] = "Successfully applied migration" /\ LegacyFull(atBegin.sm)) =>
          /\ db.sm = [atBegin.sm EXCEPT !.rows = @ \cup {LedgerRow(Null, LastLine[2], LastLine[2], Now)}]
          /\ Keyed(atBegin.sm, LastLine[2]) = {}
          /\ Cardinality(Keyed(db.sm, LastLine[2])) = 1
          /\ LastLine[2] # M003 => Effect(db, LastLine[2])
    /\ (op = "down" /\ LastLine[1] = "Successfully rolled back migration" /\ LegacyFull(atBegin.sm)) =>
          /\ db.sm = [atBegin.sm EXCEPT !.rows = @ \ Keyed(atBegin.sm, LastLine[2])]
          /\ Cardinality(Keyed(atBegin.sm, LastLine[2])) = 1
          /\ \A x \in Keyed(atBegin.sm, LastLine[2]) : x.id = LastLine[2]
          /\ LastLine[2] # M003 => ~Effect(db, LastLine[2])

\* on a legacy ledger MigrateUp recorded 002 through the INSERT on id, a
\* MigrateDown reverted 003 and this MigrateDown has reverted 002
C22_Witness ==
    /\ Returned("down") /\ ret.ok
    /\ LastLine = <<"Successfully rolled back migration", M002>>
    /\ LegacyFull(db.sm)
    /\ h2.op = "up" /\ h2.ok /\ LedgerRow(Null, M002, M002, Now) \in h2.db.sm.rows
    /\ h1.op = "down" /\ h1.ok
    /\ ~Applied(db, M002) /\ ~db.contacts /\ Applied(db, M001)

----------------------------------------------------------------------------
(* C23 *)

\* C23: MigrateUp calls CreateMigrationsTable first and once: it is the
\* first database call of the call and no later one; when it has run and
\* nothing else yet, an existing ledger table, whatever its shape and rows,
\* and the rest of the database are as the call found them, and an absent
\* one has become the empty canonical table unless the statement failed; if
\* it fails MigrateUp returns that error having made no other database
\* call, logged nothing and changed nothing.
C23_EnsureTableFirst ==
    /\ (op = "up" /\ Len(calls) > 0) =>
          /\ calls[1] = <<"CreateMigrationsTable", Null>>
          /\ Events("CreateMigrationsTable") = {1}
    /\ (op = "up" /\ Len(calls) = 1) =>
          /\ pre.sm.exists => db = pre
          /\ (~pre.sm.exists /\ ret = Running) => db = [pre EXCEPT !.sm = CanonicalTable]
          /\ ret = Running \/ FailedAt("up", {"create migrations table"})
    /\ FailedAt("up", {"create migrations table"}) =>
          /\ calls = << <<"CreateMigrationsTable", Null>> >>
          /\ out = <<>>
          /\ db = pre /\ ~txOpen /\ faulted

\* CreateMigrationsTable has just run on a legacy table holding two rows
C23_Witness ==
    /\ op = "up" /\ pc = "up_check" /\ Len(calls) = 1
    /\ LegacyShape(pre.sm) /\ Cardinality(pre.sm.rows) = 2
    /\ db = pre

----------------------------------------------------------------------------
(* C24 *)

\* The Begin calls of the running/last call that opened a transaction: all
\* but a Begin that returned an error, which is the call's last database call
OpenedAt ==
    {k \in Events("Begin") :
        ~(k = Len(calls) /\ pc = "idle"
          /\ ret.step \in {"start transaction for migration", "start transaction for rollback"})}

ClosedAt == Events("Commit") \cup Events("Rollback")

\* the first Commit or Rollback after position k (0: none)
CloseOf(k) ==
    IF \E c \in ClosedAt : c > k
    THEN CHOOSE c \in ClosedAt : c > k /\ \A e \in ClosedAt : e > k => c <= e
    ELSE 0

\* C24: one transaction at a time: in a MigrateUp or MigrateDown call every
\* Begin that opened a transaction is answered by exactly one Commit or
\* Rollback, made for the same migration, before the next Begin and before
\* the call returns; every database call in between is Up/Down or a ledger
\* write for that one migration; a transaction is open exactly between a
\* Begin and its Commit/Rollback, so at most one is open at any point and
\* none when the call has returned, with or without an error.
C24_OneTransaction ==
    op \in {"up", "down"} =>
        /\ \A b \in OpenedAt :
              /\ CloseOf(b) = 0 => (txOpen /\ \A b2 \in Events("Begin") : b2 <= b)
              /\ CloseOf(b) # 0 =>
                    \A k \in b..CloseOf(b) :
                        /\ calls[k][2] = calls[b][2]
                        /\ k > b => calls[k][1] # "Begin"
              /\ \A k \in (b + 1)..(IF CloseOf(b) = 0 THEN Len(calls) ELSE CloseOf(b)) :
                    /\ calls[k][2] = calls[b][2]
                    /\ calls[k][1] \in {"Up", "Down", "MarkMigrationApplied",
                                        "MarkMigrationUnapplied", "Commit", "Rollback"}
        /\ Cardinality(ClosedAt) <= Cardinality(OpenedAt)
        /\ Cardinality(OpenedAt) <= Cardinality(ClosedAt) + 1
        /\ txOpen <=> Cardinality(OpenedAt) = Cardinality(ClosedAt) + 1
        /\ pc = "idle" => (~txOpen /\ Cardinality(OpenedAt) = Cardinality(ClosedAt))

\* MigrateUp has returned an error from the third transaction it opened,
\* after committing two
C24_Witness ==
    /\ Returned("up") /\ ~ret.ok /\ ret.id = M003
    /\ Cardinality(OpenedAt) = 3 /\ Cardinality(Events("Commit")) = 2
    /\ Cardinality(Events("Rollback")) = 1
    /\ ~txOpen

----------------------------------------------------------------------------
(* C25 *)

\* A migration's state from the runner's perspective: Applying / Reverting
\* while the call's transaction for it is open, else what the ledger says
StateOf(id, open, call, position, d) ==
    IF open /\ GetMigrations[position] = id
    THEN IF call = "up" THEN "Applying" ELSE "Reverting"
    ELSE IF Applied(d, id) THEN "Applied" ELSE "Pending"

MigrationState(id) == StateOf(id, txOpen, op, idx, db)

\* The moves a step may make, for the call that makes it
AllowedMoves(call) ==
    IF call = "up"
    THEN {<<"Pending", "Applying">>, <<"Applying", "Applied">>, <<"Applying", "Pending">>}
    ELSE IF call = "down"
    THEN {<<"Applied", "Reverting">>, <<"Reverting", "Pending">>, <<"Reverting", "Applied">>}
    ELSE {}

\* C25: per-migration state machine: every step of the runner leaves each
\* migration's state as it is or moves it along Pending -> Applying ->
\* Applied or Applying -> Pending, in MigrateUp, and along Applied ->
\* Reverting -> Pending or Reverting -> Applied, in MigrateDown; so no
\* migration goes from Pending to Applied or from Applied to Pending but
\* through a transaction opened for it, MigrateUp moves none toward Pending,
\* MigrateDown none toward Applied, and Status moves none.
C25_StateMachine ==
    [][\A i \in 1..NMigrations :
          LET before == MigrationState(GetMigrations[i])
              after == StateOf(GetMigrations[i], txOpen', op', idx', db')
          IN  before # after => <<before, after>> \in AllowedMoves(op')]_vars

\* MigrateDown is about to commit the revert of 002, with 001 applied and
\* 003 pending
C25_Witness ==
    /\ op = "down" /\ pc = "down_commit"
    /\ MigrationState(M001) = "Applied"
    /\ MigrationState(M002) = "Reverting"
    /\ MigrationState(M003) = "Pending"
    /\ lastTx[M002] = "apply"

----------------------------------------------------------------------------
(* C26 *)

BeginSteps == {"start transaction for migration", "start transaction for rollback"}

\* C26: connectivity failure mutates nothing: when Begin fails for migration
\* K in MigrateUp, or for the selected migration in MigrateDown, the call
\* returns the error with Begin as its last database call; no Up, Down,
\* MarkMigrationApplied or MarkMigrationUnapplied was called for K, no
\* transaction is open, K is not reported as applied or rolled back, and
\* the database, ledger and schema, is the one of just before that Begin;
\* Up, Down and the ledger writes run only in a transaction that Begin
\* opened.
C26_BeginFailureMutatesNothing ==
    /\ \A c \in {"up", "down"} :
          FailedAt(c, BeginSteps) =>
              /\ calls[Len(calls)] = <<"Begin", ret.id>>
              /\ \A k \in 1..Len(calls) :
                    calls[k][2] = ret.id => calls[k][1] \in {"IsMigrationApplied", "Begin"}
              /\ Events("Begin") \cap OpenedAt = {k \in Events("Begin") : k < Len(calls)}
              /\ ~txOpen
              /\ db = atBegin /\ work = db
              /\ LastLine \in {<<"Applying migration", ret.id>>, <<"Rolling back migration", ret.id>>}
              /\ faulted
    /\ pc \in {"up_run", "up_mark", "up_commit", "down_run", "down_mark", "down_commit"} =>
          /\ txOpen
          /\ calls[Len(calls)][1] \in {"Begin", "Up", "Down", "MarkMigrationApplied",
                                       "MarkMigrationUnapplied"}

\* Begin failed in MigrateDown for 002, the highest applied migration
C26_Witness ==
    /\ FailedAt("down", BeginSteps) /\ ret.id = M002
    /\ Applied(db, M002) /\ db.contacts /\ ~Applied(db, M003)
    /\ calls[Len(calls)] = <<"Begin", M002>>

----------------------------------------------------------------------------
(* C27 *)

\* The migrations recorded in d are the first k of the catalog, for some k
IsPrefix(d) ==
    \E k \in 0..NMigrations :
        \A i \in 1..NMigrations : Applied(d, GetMigrations[i]) <=> i <= k

\* C27: the applied set is always a catalog prefix under normal use: from a
\* fresh database, after any sequence of MigrateUp, MigrateDown and Status
\* calls run one at a time, each possibly failing at any statement, Begin or
\* Commit, the migrations recorded in the ledger are the first k of the
\* catalog for some k, in the committed database and inside the open
\* transaction alike; no state has migration N pending and N+1 applied.
C27_AppliedIsPrefix ==
    /\ IsPrefix(db)
    /\ IsPrefix(work)
    /\ \A i \in 1..(NMigrations - 1) :
          Applied(db, GetMigrations[i + 1]) => Applied(db, GetMigrations[i])

\* after a successful MigrateDown, a MigrateUp failed: 001 and 002 are
\* recorded, 003 is not
C27_Witness ==
    /\ Returned("up") /\ ~ret.ok /\ h1.op = "down" /\ h1.ok
    /\ Applied(db, M001) /\ Applied(db, M002) /\ ~Applied(db, M003)
    /\ Applied(h2.db, M003)

----------------------------------------------------------------------------
(* C28 *)

\* C28: Status is read-only: at every point of a Status call, and when it
\* has returned, with or without an error, the only database calls it has
\* made are IsMigrationApplied reads, no transaction is or was opened, no
\* Up or Down was invoked, and the database -- the ledger table, its shape
\* and rows, and the business tables -- is the one the call found.
C28_StatusReadOnly ==
    op = "status" =>
        /\ \A k \in 1..Len(calls) : calls[k][1] = "IsMigrationApplied"
        /\ ~txOpen
        /\ db = pre
        /\ work = db

\* Status reported 001 and failed on the read for 002, on a database that
\* has ledger rows
C28_Witness ==
    /\ Returned("status") /\ ~ret.ok /\ ret.id = M002
    /\ Len(out) = 1 /\ Len(calls) = 2
    /\ db.sm.rows # {} /\ db = pre

----------------------------------------------------------------------------
(* C29 *)

\* C29: reverting 003 is a no-op on the schema: a MigrateDown call that
\* finds 003 recorded (the highest migration of the catalog) and meets no
\* connection failure returns nil; when it returns nil it has called the
\* Down of 003 only and the database is the one it found less the ledger
\* row of 003: shape of the ledger table, other rows and business tables
\* unchanged; when it fails the database is the one it found.  A MigrateUp
\* that follows and returns nil has recorded 003 again, keeping the ledger
\* table's shape, every row that was there and the business tables, and
\* adding that one row only when 003 was the only pending migration.
C29_RevertRepairNoOp ==
    /\ (Returned("down") /\ Applied(pre, M003)) =>
          /\ ~faulted => ret.ok
          /\ ret.ok =>
                /\ \A k \in Events("Down") : calls[k][2] = M003
                /\ Cardinality(Events("Down")) = 1
                /\ db = [pre EXCEPT !.sm.rows = @ \ Keyed(pre.sm, M003)]
                /\ ~Applied(db, M003)
          /\ ~ret.ok => db = pre
    /\ (/\ Returned("up") /\ ret.ok
        /\ h1.op = "down" /\ h1.ok /\ Applied(h2.db, M003) /\ ~Applied(h1.db, M003)) =>
          /\ Applied(db, M003)
          /\ db.sm.cols = h1.db.sm.cols /\ db.sm.pk = h1.db.sm.pk
          /\ h1.db.sm.rows \subseteq db.sm.rows
          /\ Pending(h1.db) = <<M003>> =>
                /\ db = [h1.db EXCEPT !.sm.rows = db.sm.rows]
                /\ db.sm.rows \ h1.db.sm.rows = Keyed(db.sm, M003)
                /\ Cardinality(Keyed(db.sm, M003)) = 1

\* 003 was reverted by the previous MigrateDown and this MigrateUp has
\* recorded it again, 001 and 002 staying applied throughout
C29_Witness ==
    /\ Returned("up") /\ ret.ok
    /\ h1.op = "down" /\ h1.ok /\ Applied(h2.db, M003) /\ ~Applied(h1.db, M003)
    /\ Pending(h1.db) = <<M003>>
    /\ UpIds = <<M003>>
    /\ db.users /\ db.contacts /\ Applied(db, M003)

----------------------------------------------------------------------------
(* C30 *)

\* the migrations the running/last call reported as rolled back
RolledBackNow ==
    {out[k][2] : k \in {n \in 1..Len(out) : out[n][1] = "Successfully rolled back migration"}}

\* C30: a Commit failure is fatal and not treated as applied: when Commit
\* fails for migration K in MigrateUp the call returns an error naming K,
\* with that Commit as its last database call (no Rollback after it, nothing
\* for a later migration), K is not reported as successfully applied and has
\* no ledger row; a migration is reported as successfully applied only when
\* its Commit succeeded; when Commit fails in MigrateDown the call returns
\* an error naming the migration, which is not reported as rolled back and
\* keeps its ledger row.
C30_CommitFailureFatal ==
    /\ FailedAt("up", {"commit migration"}) =>
          /\ ret.id = GetMigrations[idx]
          /\ calls[Len(calls)] = <<"Commit", ret.id>>
          /\ Cardinality({k \in Events("Commit") : calls[k][2] = ret.id}) = 1
          /\ \A k \in 2..Len(calls) : Pos(calls[k][2]) <= Pos(ret.id)
          /\ ret.id \notin CommittedNow
          /\ ~Applied(db, ret.id)
          /\ ~txOpen /\ faulted
    /\ op = "up" => \A id \in CommittedNow : Applied(db, id) /\ lastTx[id] = "apply"
    /\ FailedAt("down", {"commit rollback"}) =>
          /\ ret.id = GetMigrations[idx]
          /\ calls[Len(calls)] = <<"Commit", ret.id>>
          /\ RolledBackNow = {}
          /\ Applied(db, ret.id)
          /\ ~txOpen /\ faulted
    /\ op = "down" => \A id \in RolledBackNow : ~Applied(db, id) /\ lastTx[id] = "revert"

\* MigrateUp committed 001 and the Commit of 002 failed
C30_Witness ==
    /\ FailedAt("up", {"commit migration"}) /\ ret.id = M002
    /\ CommittedNow = {M001}
    /\ Applied(db, M001) /\ ~Applied(db, M002) /\ ~db.contacts

====
